---- MODULE Spec2Model ----
(***************************************************************************)
(* A model of figure-to-latex:                                             *)
(*   src/figure_to_latex.py            configure_latex, export_latex       *)
(*   src/docs/examples/generate_example_plots.py   map_points              *)
(*                                                                         *)
(* Python floats are modelled as exact rationals <<n, d>> in lowest terms  *)
(* with d > 0, so the arithmetic below is the arithmetic of the source     *)
(* without rounding.  An Optional value is a sequence of length at most 1: *)
(* None is <<>> and a given value v is <<v>>.                              *)
(*                                                                         *)
(* export_latex is modelled statement group by statement group (pc), so    *)
(* that the order of its library calls and the rcParams in force at each   *)
(* of them are visible; between two steps of a call nothing else runs.     *)
(* Every library call may raise instead of acting (LibraryRaises).  The    *)
(* arguments dpi, bbox_inches and debug only reach savefig and print and   *)
(* are left out.  rcParams.update stores the values it is given.           *)
(***************************************************************************)
EXTENDS Integers, Sequences, FiniteSets, TLC

VARIABLES
    TEXTWIDTH_PT,   \* module global TEXTWIDTH_PT (a rational, TeX points)
    DEFAULTS,       \* module global _DEFAULTS
    rcParams,       \* mpl.rcParams, the keys this module writes
    cfgArgs,        \* keyword arguments of the latest configure_latex call
    widthArg,       \* the latest textwidth_pt any configure_latex call passed
    pc,             \* position of the caller / of export_latex
    args,           \* keyword arguments of the export_latex call in progress
    fig,            \* the Figure passed to export_latex
    figBefore,      \* fig as it was when export_latex was called
    rcBefore,       \* rcParams as they were when export_latex was called
    aspect,         \* local `aspect` after line 185
    overrides,      \* local `overrides` (a function from rc keys)
    rcOrig,         \* what rc_context saved on entry, <<>> outside the context
    rcSeen,         \* rcParams in force at each draw / savefig, in order
    fmtIdx,         \* how many elements of `formats` the loop has consumed
    first_path,     \* local `first_path` of _save_all
    saved,          \* paths handed to fig.savefig, in order
    dirs,           \* directories handed to mkdir, in order
    events,         \* library calls made by this export_latex call, in order
    result,         \* value returned by export_latex
    err,            \* exception that ended export_latex, "" if none
    mp,             \* arguments of map_points
    mapped          \* value returned by map_points

vars == <<TEXTWIDTH_PT, DEFAULTS, rcParams, cfgArgs, widthArg, pc, args, fig, figBefore,
          rcBefore, aspect, overrides, rcOrig, rcSeen, fmtIdx, first_path,
          saved, dirs, events, result, err, mp, mapped>>

cfgVars == <<TEXTWIDTH_PT, DEFAULTS, rcParams, cfgArgs, widthArg>>

callVars == <<args, fig, figBefore, rcBefore, aspect, overrides, rcOrig, rcSeen,
              fmtIdx, first_path, saved, dirs, events, result, err>>

mapVars == <<mp, mapped>>

----------------------------------------------------------------------------
(* Optional values *)

None == <<>>

Some(v) == <<v>>

IsNone(o) == o = <<>>

Val(o) == o[1]

----------------------------------------------------------------------------
(* Rational arithmetic: Python float arithmetic without rounding *)

Abs(n) == IF n < 0 THEN -n ELSE n

RECURSIVE GCD(_, _)
GCD(a, b) == IF b = 0 THEN a ELSE GCD(b, a % b)

\* n / d in lowest terms with a positive denominator (d # 0)
Rat(n, d) ==
    LET g == GCD(Abs(n), Abs(d))
        s == IF d < 0 THEN -1 ELSE 1
    IN  <<(s * n) \div g, (s * d) \div g>>

RInt(n) == <<n, 1>>

RAdd(a, b) == Rat(a[1] * b[2] + b[1] * a[2], a[2] * b[2])

RSub(a, b) == Rat(a[1] * b[2] - b[1] * a[2], a[2] * b[2])

RMul(a, b) == Rat(a[1] * b[1], a[2] * b[2])

\* a / b for b # 0 (Python raises ZeroDivisionError otherwise)
RDiv(a, b) == Rat(a[1] * b[2], a[2] * b[1])

RLe(a, b) == a[1] * b[2] <= b[1] * a[2]

RLt(a, b) == a[1] * b[2] < b[1] * a[2]

RMin(a, b) == IF RLe(a, b) THEN a ELSE b

RMax(a, b) == IF RLe(a, b) THEN b ELSE a

\* int(x): truncation towards zero
IntOf(a) == IF a[1] >= 0 THEN a[1] \div a[2] ELSE -((-a[1]) \div a[2])

R0 == RInt(0)

R1 == RInt(1)

----------------------------------------------------------------------------
(* Project-wide settings *)

TEXTWIDTH_PT_Default == 345

TexPointsPerInchTimes100 == 7227

BaseFontDefault == 11

TickFontDefault == 10

LegendFontDefault == 10

DefaultSettings ==
    [engine |-> "pdflatex",
     family |-> "serif",
     serif |-> <<"Computer Modern">>,
     base_font_pt |-> BaseFontDefault,
     axes_label_pt |-> None,
     tick_font_pt |-> TickFontDefault,
     legend_font_pt |-> LegendFontDefault,
     use_tex |-> TRUE,
     use_mathtext_for_ticks |-> FALSE,
     preamble |-> "amsmath amssymb siunitx mathdefault",
     side_margin |-> None]

SettingKeys == DOMAIN DefaultSettings

RcKeys == {"text.usetex", "font.family", "font.serif", "font.size",
           "axes.labelsize", "legend.fontsize", "xtick.labelsize",
           "ytick.labelsize", "axes.formatter.use_mathtext",
           "pgf.texsystem", "pgf.rcfonts", "pgf.preamble"}

\* A variant that always takes the base font size
AxesLabelSize_Base(d) == d.base_font_pt

\* "axes.labelsize": axes_label_pt, or base_font_pt when that is None
AxesLabelSize(d) ==
    IF ~IsNone(d.axes_label_pt) THEN Val(d.axes_label_pt) ELSE d.base_font_pt

\* The dictionary _apply_rc hands to mpl.rcParams.update
ApplyRcDict(d) ==
    [k \in RcKeys |->
        CASE k = "text.usetex" -> d.use_tex
          [] k = "font.family" -> d.family
          [] k = "font.serif" -> d.serif
          [] k = "font.size" -> d.base_font_pt
          [] k = "axes.labelsize" -> AxesLabelSize(d)
          [] k = "legend.fontsize" -> d.legend_font_pt
          [] k = "xtick.labelsize" -> d.tick_font_pt
          [] k = "ytick.labelsize" -> d.tick_font_pt
          [] k = "axes.formatter.use_mathtext" -> d.use_mathtext_for_ticks
          [] k = "pgf.texsystem" -> d.engine
          [] k = "pgf.rcfonts" -> FALSE
          [] k = "pgf.preamble" -> d.preamble]

\* dict.update: the keys of upd overwrite, every other key keeps its value
RcUpdate(rc, upd) ==
    [k \in DOMAIN rc |-> IF k \in DOMAIN upd THEN upd[k] ELSE rc[k]]

\* _apply_rc(): rcParams after the update from the settings d
ApplyRc(rc, d) == RcUpdate(rc, ApplyRcDict(d))

----------------------------------------------------------------------------
(* configure_latex *)

ConfigKeys == {"textwidth_pt", "engine", "base_font_pt", "axes_label_pt",
               "tick_font_pt", "legend_font_pt", "family", "serif",
               "preamble", "use_tex", "use_mathtext_for_ticks", "side_margin"}

NoConfigArgs == [k \in ConfigKeys |-> None]

\* A side margin: a float (seq = FALSE, x0 = x1) or a (left, right) pair
Scalar(x) == [seq |-> FALSE, x0 |-> x, x1 |-> x]

Pair(l, r) == [seq |-> TRUE, x0 |-> l, x1 |-> r]

\* _DEFAULTS after the assignments of configure_latex(**a)
Configured(d, a) ==
    [engine |-> IF ~IsNone(a.engine) THEN Val(a.engine) ELSE d.engine,
     base_font_pt |-> IF ~IsNone(a.base_font_pt)
                      THEN IntOf(Val(a.base_font_pt)) ELSE d.base_font_pt,
     axes_label_pt |-> IF ~IsNone(a.axes_label_pt)
                       THEN Some(IntOf(Val(a.axes_label_pt)))
                       ELSE d.axes_label_pt,
     tick_font_pt |-> IF ~IsNone(a.tick_font_pt)
                      THEN IntOf(Val(a.tick_font_pt)) ELSE d.tick_font_pt,
     legend_font_pt |-> IF ~IsNone(a.legend_font_pt)
                        THEN IntOf(Val(a.legend_font_pt))
                        ELSE d.legend_font_pt,
     family |-> IF ~IsNone(a.family) THEN Val(a.family) ELSE d.family,
     serif |-> IF ~IsNone(a.serif) THEN Val(a.serif) ELSE d.serif,
     preamble |-> IF ~IsNone(a.preamble) THEN Val(a.preamble) ELSE d.preamble,
     use_tex |-> IF ~IsNone(a.use_tex) THEN Val(a.use_tex) ELSE d.use_tex,
     use_mathtext_for_ticks |->
        IF ~IsNone(a.use_mathtext_for_ticks)
        THEN Val(a.use_mathtext_for_ticks) ELSE d.use_mathtext_for_ticks,
     side_margin |-> IF ~IsNone(a.side_margin) THEN Some(Val(a.side_margin))
                                               ELSE d.side_margin]

\* TEXTWIDTH_PT after configure_latex(**a)
ConfiguredWidth(w, a) ==
    IF ~IsNone(a.textwidth_pt) THEN Val(a.textwidth_pt) ELSE w

ConfigureLatex(a) ==
    /\ pc = "idle"
    /\ TEXTWIDTH_PT' = ConfiguredWidth(TEXTWIDTH_PT, a)
    /\ DEFAULTS' = Configured(DEFAULTS, a)
    /\ rcParams' = ApplyRc(rcParams, DEFAULTS')
    /\ cfgArgs' = a
    /\ widthArg' = IF ~IsNone(a.textwidth_pt) THEN a.textwidth_pt ELSE widthArg
    /\ UNCHANGED <<pc, callVars, mapVars>>

\* Values a caller passes for each keyword of configure_latex
ConfigValues ==
    [textwidth_pt |-> {Rat(4695, 10)},
     engine |-> {"lualatex"},
     base_font_pt |-> {Rat(25, 2)},
     axes_label_pt |-> {RInt(9)},
     tick_font_pt |-> {RInt(8)},
     legend_font_pt |-> {Rat(17, 2)},
     family |-> {"sans-serif"},
     serif |-> {<<"Times", "Palatino">>},
     preamble |-> {"fontspec"},
     use_tex |-> {FALSE},
     use_mathtext_for_ticks |-> {TRUE},
     side_margin |-> {Scalar(Rat(1, 10))}]

Opt(S) == {None} \cup {Some(v) : v \in S}

\* Sequences over S of length at most n
RECURSIVE SeqsUpTo(_, _)
SeqsUpTo(S, n) ==
    IF n = 0 THEN {<<>>}
    ELSE LET shorter == SeqsUpTo(S, n - 1)
         IN  shorter \cup {Append(q, x) : q \in shorter, x \in S}

ConfigOne(k, v) == [NoConfigArgs EXCEPT ![k] = Some(v)]

\* Calls that pass one keyword
OneKeywordCalls ==
    UNION {{ConfigOne(k, v) : v \in ConfigValues[k]} : k \in ConfigKeys}

\* Calls that pass axes_label_pt or side_margin, the two settings that start
\* as None, together with one other keyword
TwoKeywordCalls ==
    UNION {{[b EXCEPT ![k] = Some(v)] :
                b \in {a \in OneKeywordCalls : IsNone(a[k])},
                v \in ConfigValues[k]} :
            k \in {"axes_label_pt", "side_margin"}}

\* A call that passes every keyword
FullConfigCall == [k \in ConfigKeys |-> Some(CHOOSE v \in ConfigValues[k] : TRUE)]

AllConfigCalls ==
    {NoConfigArgs, FullConfigCall} \cup OneKeywordCalls \cup TwoKeywordCalls

----------------------------------------------------------------------------
(* State after `import figure_to_latex` *)

NoCall == [name |-> "none"]

InitGlobals ==
    /\ TEXTWIDTH_PT = RInt(TEXTWIDTH_PT_Default)
    /\ DEFAULTS = DefaultSettings
    /\ rcParams = ApplyRcDict(DefaultSettings)
    /\ cfgArgs = NoConfigArgs
    /\ widthArg = None

InitCall ==
    /\ pc = "idle"
    /\ args = NoCall
    /\ fig = NoCall
    /\ figBefore = NoCall
    /\ rcBefore = <<>>
    /\ aspect = None
    /\ overrides = <<>>
    /\ rcOrig = <<>>
    /\ rcSeen = <<>>
    /\ fmtIdx = 0
    /\ first_path = None
    /\ saved = <<>>
    /\ dirs = <<>>
    /\ events = <<>>
    /\ result = None
    /\ err = ""

NotMapped == [status |-> "none", pts |-> <<>>]

InitMap ==
    /\ mp = NoCall
    /\ mapped = NotMapped

Init == InitGlobals /\ InitCall /\ InitMap

----------------------------------------------------------------------------
(* export_latex *)

\* A variant that divides by the 72 points of a PostScript inch
PtToIn_PostScript(pt) == RDiv(pt, RInt(72))

\* _pt_to_in
PtToIn(pt) == RDiv(pt, Rat(TexPointsPerInchTimes100, 100))

\* A variant that tests `wi < 0`
CannotInferAspect_Strict(wi) == RLt(wi, R0)

\* `wi <= 0`: the aspect ratio cannot be inferred
CannotInferAspect(wi) == RLe(wi, R0)

\* width_in, height_in
WidthIn(tw, fraction) == RMul(PtToIn(tw), fraction)

HeightIn(width_in, asp) == RMul(width_in, asp)

\* A variant in which the project default wins over the per-call margin
SideMarginOf_DefaultFirst(default, side_margin) ==
    IF IsNone(default) THEN side_margin ELSE default

\* sm = _DEFAULTS["side_margin"] if side_margin is None else side_margin
SideMarginOf(default, side_margin) ==
    IF IsNone(side_margin) THEN default ELSE side_margin

\* left_frac, right_frac: sm[0], sm[1] of a pair, sm itself of a float
LeftFrac(m) == m.x0

RightFrac(m) == IF m.seq THEN m.x1 ELSE m.x0

\* max(0.0, min(1.0, x))
Clamp01(x) == RMax(R0, RMin(R1, x))

AdjustLeft(m) == Clamp01(LeftFrac(m))

AdjustRight(m) == RSub(R1, Clamp01(RightFrac(m)))

\* The `overrides` dictionary built from the per-call font arguments
OverridesOf(a) ==
    LET ks == (IF ~IsNone(a.font_size) THEN {"font.size"} ELSE {})
              \cup (IF ~IsNone(a.axes_label_size) THEN {"axes.labelsize"} ELSE {})
              \cup (IF ~IsNone(a.tick_size)
                    THEN {"xtick.labelsize", "ytick.labelsize"} ELSE {})
              \cup (IF ~IsNone(a.legend_size) THEN {"legend.fontsize"} ELSE {})
    IN  [k \in ks |->
            CASE k = "font.size" -> Val(a.font_size)
              [] k = "axes.labelsize" -> Val(a.axes_label_size)
              [] k = "xtick.labelsize" -> Val(a.tick_size)
              [] k = "ytick.labelsize" -> Val(a.tick_size)
              [] k = "legend.fontsize" -> Val(a.legend_size)]

\* A variant that appends the suffix instead of replacing the last one
WithSuffix_Append(p, fmt) == [parent |-> p.parent, name |-> Append(p.name, fmt)]

\* A path is its parent directory and its final component split at the dots.
\* Path.with_suffix("." + fmt): the last dotted piece, if any, is replaced.
WithSuffix(p, fmt) ==
    [parent |-> p.parent,
     name |-> Append(IF Len(p.name) > 1
                     THEN SubSeq(p.name, 1, Len(p.name) - 1) ELSE p.name,
                     fmt)]

\* A variant that restores nothing
RcOnExit_Leak(rc, orig) == rc

\* rcParams when a `with mpl.rc_context(...)` block is left, normally or by
\* an exception; outside such a block nothing is restored
RcOnExit(rc, orig) == IF IsNone(orig) THEN rc ELSE Val(orig)

\* Lines 179-187: the call, and the aspect decision
ExportLatex(f, a) ==
    /\ pc = "idle"
    /\ args' = a
    /\ fig' = f
    /\ figBefore' = f
    /\ rcBefore' = rcParams
    /\ IF IsNone(a.aspect)
       THEN IF CannotInferAspect(f.w)
            THEN /\ aspect' = None
                 /\ err' = "ValueError"
                 /\ pc' = "raised"
            ELSE /\ aspect' = Some(RDiv(f.h, f.w))
                 /\ err' = ""
                 /\ pc' = "resize"
       ELSE /\ aspect' = a.aspect
            /\ err' = ""
            /\ pc' = "resize"
    /\ UNCHANGED <<cfgVars, overrides, rcOrig, rcSeen, fmtIdx, first_path,
                   saved, dirs, events, result, mapVars>>

\* Lines 189-192: fig.set_size_inches(width_in, height_in, forward=True)
SetSize ==
    /\ pc = "resize"
    /\ LET width_in == WidthIn(TEXTWIDTH_PT, args.fraction)
           height_in == HeightIn(width_in, Val(aspect))
       IN  fig' = [fig EXCEPT !.w = width_in, !.h = height_in]
    /\ events' = Append(events, "set_size_inches")
    /\ pc' = "margins"
    /\ UNCHANGED <<cfgVars, args, figBefore, rcBefore, aspect, overrides,
                   rcOrig, rcSeen, fmtIdx, first_path, saved, dirs, result,
                   err, mapVars>>

\* Lines 194-205: fig.subplots_adjust(left=left, right=right), if any margin
SideMargins ==
    /\ pc = "margins"
    /\ LET sm == SideMarginOf(DEFAULTS.side_margin, args.side_margin)
       IN  IF ~IsNone(sm)
           THEN /\ fig' = [fig EXCEPT !.left = AdjustLeft(Val(sm)),
                                      !.right = AdjustRight(Val(sm))]
                /\ events' = Append(events, "subplots_adjust")
           ELSE UNCHANGED <<fig, events>>
    /\ pc' = "fonts"
    /\ UNCHANGED <<cfgVars, args, figBefore, rcBefore, aspect, overrides,
                   rcOrig, rcSeen, fmtIdx, first_path, saved, dirs, result,
                   err, mapVars>>

\* Lines 207-218 and 232-233: build `overrides`, enter rc_context if non-empty
FontOverrides ==
    /\ pc = "fonts"
    /\ overrides' = OverridesOf(args)
    /\ IF DOMAIN overrides' # {}
       THEN /\ rcOrig' = Some(rcParams)
            /\ rcParams' = RcUpdate(rcParams, overrides')
       ELSE UNCHANGED <<rcOrig, rcParams>>
    /\ pc' = "draw"
    /\ UNCHANGED <<TEXTWIDTH_PT, DEFAULTS, cfgArgs, widthArg, args, fig,
                   figBefore, rcBefore, aspect, rcSeen, fmtIdx, first_path,
                   saved, dirs, events, result, err, mapVars>>

\* Lines 234 / 237: fig.canvas.draw()
Draw ==
    /\ pc = "draw"
    /\ events' = Append(events, "draw")
    /\ rcSeen' = Append(rcSeen, rcParams)
    /\ fmtIdx' = 0
    /\ first_path' = None
    /\ pc' = "save"
    /\ UNCHANGED <<cfgVars, args, fig, figBefore, rcBefore, aspect, overrides,
                   rcOrig, saved, dirs, result, err, mapVars>>

\* Lines 222-224: the next format's path, fp.parent.mkdir(...)
Mkdir ==
    /\ pc = "save"
    /\ fmtIdx < Len(args.formats)
    /\ LET fp == WithSuffix(args.name, args.formats[fmtIdx + 1])
       IN  dirs' = Append(dirs, fp.parent)
    /\ events' = Append(events, "mkdir")
    /\ pc' = "savefig"
    /\ UNCHANGED <<cfgVars, args, fig, figBefore, rcBefore, aspect, overrides,
                   rcOrig, rcSeen, fmtIdx, first_path, saved, result, err,
                   mapVars>>

\* Lines 225-227: fig.savefig(fp, ...), first_path
SaveFig ==
    /\ pc = "savefig"
    /\ LET fp == WithSuffix(args.name, args.formats[fmtIdx + 1])
       IN  /\ saved' = Append(saved, fp)
           /\ first_path' = IF IsNone(first_path) THEN Some(fp) ELSE first_path
    /\ events' = Append(events, "savefig")
    /\ rcSeen' = Append(rcSeen, rcParams)
    /\ fmtIdx' = fmtIdx + 1
    /\ pc' = "save"
    /\ UNCHANGED <<cfgVars, args, fig, figBefore, rcBefore, aspect, overrides,
                   rcOrig, dirs, result, err, mapVars>>

\* Lines 228-229 and the end of the with block: the loop is over;
\* `assert first_path is not None`, return to export_latex, leave rc_context
SaveDone ==
    /\ pc = "save"
    /\ fmtIdx = Len(args.formats)
    /\ IF IsNone(first_path)
       THEN /\ err' = "AssertionError"
            /\ pc' = "raised"
       ELSE /\ err' = err
            /\ pc' = "show"
    /\ rcParams' = RcOnExit(rcParams, rcOrig)
    /\ rcOrig' = None
    /\ UNCHANGED <<TEXTWIDTH_PT, DEFAULTS, cfgArgs, widthArg, args, fig,
                   figBefore, rcBefore, aspect, overrides, rcSeen, fmtIdx,
                   first_path, saved, dirs, events, result, mapVars>>

\* A variant that shows the figure whatever `show` is
Show_Always ==
    /\ pc = "show"
    /\ events' = Append(events, "show")
    /\ pc' = "close"
    /\ UNCHANGED <<cfgVars, args, fig, figBefore, rcBefore, aspect, overrides,
                   rcOrig, rcSeen, fmtIdx, first_path, saved, dirs, result,
                   err, mapVars>>

\* Lines 240-241: plt.show() if show
Show ==
    /\ pc = "show"
    /\ events' = IF args.show THEN Append(events, "show") ELSE events
    /\ pc' = "close"
    /\ UNCHANGED <<cfgVars, args, fig, figBefore, rcBefore, aspect, overrides,
                   rcOrig, rcSeen, fmtIdx, first_path, saved, dirs, result,
                   err, mapVars>>

\* Lines 242-243: plt.close(fig); return first
Close ==
    /\ pc = "close"
    /\ fig' = [fig EXCEPT !.closed = @ + 1]
    /\ events' = Append(events, "close")
    /\ result' = first_path
    /\ pc' = "returned"
    /\ UNCHANGED <<cfgVars, args, figBefore, rcBefore, aspect, overrides,
                   rcOrig, rcSeen, fmtIdx, first_path, saved, dirs, err,
                   mapVars>>

\* The library call export_latex is about to make raises instead of acting
\* (lines 192, 203, 234/237, 224, 225, 241, 242); the exception leaves the
\* with block, if one is open, and ends the call
LibraryRaises ==
    /\ \/ pc \in {"resize", "draw", "savefig", "close"}
       \/ pc = "margins"
            /\ ~IsNone(SideMarginOf(DEFAULTS.side_margin, args.side_margin))
       \/ pc = "save" /\ fmtIdx < Len(args.formats)
       \/ pc = "show" /\ args.show
    /\ err' = "LibraryError"
    /\ pc' = "raised"
    /\ rcParams' = RcOnExit(rcParams, rcOrig)
    /\ rcOrig' = None
    /\ UNCHANGED <<TEXTWIDTH_PT, DEFAULTS, cfgArgs, widthArg, args, fig,
                   figBefore, rcBefore, aspect, overrides, rcSeen, fmtIdx,
                   first_path, saved, dirs, events, result, mapVars>>

\* Control is back in the caller; the frame of export_latex is gone
Return ==
    /\ pc \in {"returned", "raised"}
    /\ pc' = "idle"
    /\ args' = NoCall
    /\ fig' = NoCall
    /\ figBefore' = NoCall
    /\ rcBefore' = <<>>
    /\ aspect' = None
    /\ overrides' = <<>>
    /\ rcOrig' = <<>>
    /\ rcSeen' = <<>>
    /\ fmtIdx' = 0
    /\ first_path' = None
    /\ saved' = <<>>
    /\ dirs' = <<>>
    /\ events' = <<>>
    /\ result' = None
    /\ err' = ""
    /\ UNCHANGED <<cfgVars, mapVars>>

ExportSteps ==
    \/ SetSize
    \/ SideMargins
    \/ FontOverrides
    \/ Draw
    \/ Mkdir
    \/ SaveFig
    \/ SaveDone
    \/ Show
    \/ Close
    \/ LibraryRaises
    \/ Return

----------------------------------------------------------------------------
(* Figures *)

\* A fresh Figure of the given size (inches) with the library's default
\* subplot layout, not yet closed
Figure(w, h) ==
    [w |-> w, h |-> h, left |-> Rat(1, 8), right |-> Rat(9, 10), closed |-> 0]


----------------------------------------------------------------------------
(* map_points (docs/examples/generate_example_plots.py) and its callers *)

RECURSIVE SeqMin(_)
SeqMin(q) ==
    IF Len(q) = 1 THEN q[1] ELSE RMin(q[1], SeqMin(Tail(q)))

RECURSIVE SeqMax(_)
SeqMax(q) ==
    IF Len(q) = 1 THEN q[1] ELSE RMax(q[1], SeqMax(Tail(q)))

\* x_px = left + x_norm * plot_w
XPx(left, x_norm, plot_w) == RAdd(RInt(left), RMul(x_norm, RInt(plot_w)))

\* A variant that measures y downwards from nothing but the bottom margin
YPx_Unflipped(height, bottom, y_norm, plot_h) ==
    RAdd(RInt(bottom), RMul(y_norm, RInt(plot_h)))

\* y_px = height - bottom - y_norm * plot_h
YPx(height, bottom, y_norm, plot_h) ==
    RSub(RInt(height - bottom), RMul(y_norm, RInt(plot_h)))

\* The value of map_points(xs, ys, **m), or the exception it ends with
MapPoints(m) ==
    LET x_min == SeqMin(m.xs)
        x_max == SeqMax(m.xs)
        y_min0 == SeqMin(m.ys)
        y_max0 == SeqMax(m.ys)
        y_span == RSub(y_max0, y_min0)
        y_min == RSub(y_min0, RMul(y_span, m.y_padding))
        y_max == RAdd(y_max0, RMul(y_span, m.y_padding))
        plot_w == m.width - m.left - m.right
        plot_h == m.height - m.top - m.bottom
        n == IF Len(m.xs) <= Len(m.ys) THEN Len(m.xs) ELSE Len(m.ys)
    IN  IF x_max = x_min \/ y_max = y_min
        THEN [status |-> "ZeroDivisionError", pts |-> <<>>]
        ELSE [status |-> "ok",
              pts |-> [i \in 1..n |->
                  LET x_norm == RDiv(RSub(m.xs[i], x_min), RSub(x_max, x_min))
                      y_norm == RDiv(RSub(m.ys[i], y_min), RSub(y_max, y_min))
                  IN  <<XPx(m.left, x_norm, plot_w),
                        YPx(m.height, m.bottom, y_norm, plot_h)>>]]

MapPointsCall ==
    /\ mapped.status = "none"
    /\ mapped' = MapPoints(mp)
    /\ UNCHANGED <<cfgVars, pc, callVars, mp>>

MaxSamples == 3

SampleValues == {RInt(-1), R0, Rat(5, 2)}

SampleLists == SeqsUpTo(SampleValues, MaxSamples) \ {<<>>}

\* width, height and the four margins: the first is the README's first plot
Layouts ==
    {[width |-> 900, height |-> 600, left |-> 84, right |-> 44, top |-> 86,
      bottom |-> 96],
     [width |-> 10, height |-> 8, left |-> 2, right |-> 3, top |-> 1,
      bottom |-> 4],
     [width |-> 10, height |-> 8, left |-> 6, right |-> 5, top |-> 1,
      bottom |-> 4]}

Paddings == {R0, Rat(1, 20)}

MapInputs ==
    {[xs |-> xs, ys |-> ys, width |-> l.width, height |-> l.height,
      left |-> l.left, right |-> l.right, top |-> l.top, bottom |-> l.bottom,
      y_padding |-> p] :
        xs \in SampleLists, ys \in SampleLists, l \in Layouts, p \in Paddings}

InitMapInputs ==
    /\ mp \in MapInputs
    /\ mapped = NotMapped

InitMapSpec == InitGlobals /\ InitCall /\ InitMapInputs

NextMap == MapPointsCall

SpecMap == InitMapSpec /\ [][NextMap]_vars

----------------------------------------------------------------------------
(* Callers of export_latex and configure_latex *)

PlainName == [parent |-> ".", name |-> <<"example">>]

DirName == [parent |-> "figures", name |-> <<"example">>]

DottedName == [parent |-> "figures", name |-> <<"example", "v2">>]

UsualFigure == Figure(Rat(64, 10), Rat(48, 10))

ZeroWidthFigure == Figure(R0, Rat(48, 10))

\* export_latex(fig, name="example") with every other argument defaulted,
\* but show=False
PlainCall ==
    [name |-> PlainName, fraction |-> R1, aspect |-> None, show |-> FALSE,
     formats |-> <<"pgf">>, font_size |-> None, axes_label_size |-> None,
     tick_size |-> None, legend_size |-> None, side_margin |-> None]

\* Sizes: figure size, fraction, aspect and TEXTWIDTH_PT vary
SizeFigures == {UsualFigure, ZeroWidthFigure, Figure(RInt(4), RInt(4)),
                Figure(RInt(5), R0)}

SizeCalls ==
    {[PlainCall EXCEPT !.fraction = fr, !.aspect = asp, !.show = sh] :
        fr \in {R0, Rat(1, 2), R1},
        asp \in {None, Some(Rat(3, 4)), Some(Rat(6, 5))},
        sh \in BOOLEAN}

SizeConfigs == {NoConfigArgs, ConfigOne("textwidth_pt", Rat(4695, 10)),
                ConfigOne("textwidth_pt", RInt(400)),
                ConfigOne("engine", "lualatex")}

NextSize ==
    \/ \E f \in SizeFigures, a \in SizeCalls : ExportLatex(f, a)
    \/ \E c \in SizeConfigs : ConfigureLatex(c)
    \/ ExportSteps

SpecSize == Init /\ [][NextSize]_vars

\* Saving: formats, name, show, margins vary
MaxFormats == 2

FormatNames == {"pgf", "pdf", "png"}

SaveCalls ==
    {[PlainCall EXCEPT !.name = n, !.formats = fs, !.show = sh,
                       !.aspect = asp, !.side_margin = sm] :
        n \in {PlainName, DirName, DottedName},
        fs \in SeqsUpTo(FormatNames, MaxFormats),
        sh \in BOOLEAN,
        asp \in {None, Some(Rat(3, 4))},
        sm \in {None, Some(Scalar(Rat(3, 25)))}}

SaveFigures == {UsualFigure, ZeroWidthFigure}

NextSave ==
    \/ \E f \in SaveFigures, a \in SaveCalls : ExportLatex(f, a)
    \/ ExportSteps

SpecSave == Init /\ [][NextSave]_vars

\* Margins: the per-call margin and the project default vary
MarginValues == {Scalar(Rat(3, 25)), Pair(Rat(1, 10), Rat(1, 5)),
                 Pair(Rat(-1, 20), Rat(6, 5)), Scalar(R0)}

MarginCalls ==
    {[PlainCall EXCEPT !.side_margin = sm, !.formats = fs] :
        sm \in Opt(MarginValues), fs \in {<<"pgf">>, <<"pgf", "pdf">>}}

MarginConfigs == {NoConfigArgs, ConfigOne("side_margin", Scalar(Rat(1, 10))),
                  ConfigOne("side_margin", Pair(Rat(1, 4), R0)),
                  ConfigOne("textwidth_pt", RInt(400))}

NextMargin ==
    \/ \E a \in MarginCalls : ExportLatex(UsualFigure, a)
    \/ \E c \in MarginConfigs : ConfigureLatex(c)
    \/ ExportSteps

SpecMargin == Init /\ [][NextMargin]_vars

\* Fonts: the per-call overrides and the project font sizes vary
FontCalls ==
    {[PlainCall EXCEPT !.font_size = fo, !.axes_label_size = ax,
                       !.tick_size = ti, !.legend_size = le, !.formats = fs] :
        fo \in Opt({14}), ax \in Opt({13, 0}), ti \in Opt({7}),
        le \in Opt({6}),
        fs \in {<<>>, <<"pgf">>, <<"pgf", "png">>}}

FontConfigs == {NoConfigArgs, ConfigOne("base_font_pt", Rat(25, 2)),
                ConfigOne("axes_label_pt", RInt(9)),
                ConfigOne("tick_font_pt", RInt(8))}

NextFont ==
    \/ \E a \in FontCalls : ExportLatex(UsualFigure, a)
    \/ \E c \in FontConfigs : ConfigureLatex(c)
    \/ ExportSteps

SpecFont == Init /\ [][NextFont]_vars

\* Configuration alone
NextConfig == \E a \in AllConfigCalls : ConfigureLatex(a)

SpecConfig == Init /\ [][NextConfig]_vars

----------------------------------------------------------------------------
(* Properties *)

REq(a, b) == a[1] * b[2] = b[1] * a[2]

Range(q) == {q[i] : i \in 1..Len(q)}

Count(q, x) == Cardinality({i \in 1..Len(q) : q[i] = x})

\* C1: export_latex with aspect=None on a figure whose width is <= 0 ends
\* with a ValueError, and nothing else has happened: the figure keeps its
\* size and layout and is not closed, no library call was made, no directory
\* was created and no file saved.
C1_ZeroWidthFailsFirst ==
    (pc # "idle" /\ IsNone(args.aspect) /\ figBefore.w[1] <= 0) =>
        /\ pc = "raised"
        /\ err = "ValueError"
        /\ fig = figBefore
        /\ events = <<>>
        /\ dirs = <<>>
        /\ saved = <<>>
        /\ fig.closed = 0

C1_Witness ==
    /\ pc = "raised"
    /\ err = "ValueError"
    /\ figBefore.w = R0
    /\ args.fraction = Rat(1, 2)

\* C2: the zero-width ValueError is the only exception export_latex raises
\* itself: a call ends with an exception that is not the library's only when
\* aspect is None and the width is <= 0, and when the loop of _save_all is
\* over first_path is not None.
C2_OnlyZeroWidthFails ==
    /\ (pc = "raised" /\ err # "LibraryError") =>
            (err = "ValueError" /\ IsNone(args.aspect) /\ figBefore.w[1] <= 0)
    /\ (pc = "save" /\ fmtIdx = Len(args.formats)) => ~IsNone(first_path)

\* The path Path(name).with_suffix("." + fmt), stated from the name's pieces
ExpectedPath(fmt) ==
    LET pieces == args.name.name
        stem == IF Len(pieces) > 1
                THEN [i \in 1..(Len(pieces) - 1) |-> pieces[i]] ELSE pieces
    IN  [parent |-> args.name.parent, name |-> stem \o <<fmt>>]

\* C3: with non-empty formats, a call that returns has saved the figure once
\* per element of formats, in order, to name with its suffix replaced by the
\* format, each time after creating the parent directory, and returns the
\* first of these paths; at every moment the files saved so far are the
\* paths of a prefix of formats.
C3_SavesEachFormat ==
    pc # "idle" =>
        /\ Len(saved) <= Len(args.formats)
        /\ \A i \in 1..Len(saved) : saved[i] = ExpectedPath(args.formats[i])
        /\ \A i \in 1..Len(dirs) : dirs[i] = args.name.parent
        /\ Len(saved) <= Len(dirs) /\ Len(dirs) <= Len(saved) + 1
        /\ \A i \in 1..Len(events) :
              events[i] = "savefig" => (i > 1 /\ events[i - 1] = "mkdir")
        /\ Count(events, "savefig") = Len(saved)
        /\ pc = "returned" =>
              /\ Len(args.formats) > 0
              /\ Len(saved) = Len(args.formats)
              /\ Len(dirs) = Len(args.formats)
              /\ result = Some(ExpectedPath(args.formats[1]))

C3_Witness ==
    /\ pc = "returned"
    /\ args.name = DottedName
    /\ args.formats = <<"png", "pgf">>
    /\ result = Some([parent |-> "figures", name |-> <<"example", "png">>])

\* TEXTWIDTH_PT as the configure_latex calls so far determine it
LatestTextwidth ==
    IF IsNone(widthArg) THEN RInt(TEXTWIDTH_PT_Default) ELSE Val(widthArg)

Resized == pc # "idle" /\ Len(events) >= 1

\* width * 72.27 = TEXTWIDTH_PT * fraction, and height = width * aspect
\* with the aspect given or, for aspect=None, the ratio before the call
SizeAsComputed ==
    /\ REq(RMul(fig.w, Rat(7227, 100)), RMul(LatestTextwidth, args.fraction))
    /\ IF IsNone(args.aspect)
       THEN REq(RMul(fig.h, figBefore.w), RMul(fig.w, figBefore.h))
       ELSE REq(fig.h, RMul(fig.w, Val(args.aspect)))

\* C4 (as amended): once resized, the figure is TEXTWIDTH_PT / 72.27 *
\* fraction inches wide and width * aspect inches high; with aspect=None and
\* a resulting width that is positive, the height/width ratio after the
\* resize is the ratio before the call.
C4_ResizeKeepsRatioWhenWidthPositive ==
    Resized =>
        /\ SizeAsComputed
        /\ (IsNone(args.aspect) /\ fig.w[1] > 0) =>
              RDiv(fig.h, fig.w) = RDiv(figBefore.h, figBefore.w)

C4_Witness ==
    /\ pc = "returned"
    /\ IsNone(args.aspect)
    /\ args.fraction = Rat(1, 2)
    /\ widthArg = Some(RInt(400))
    /\ figBefore = UsualFigure
    /\ fig.w = Rat(20000, 7227)
    /\ fig.h = Rat(5000, 2409)

\* C4 as stated: on every call that passes the aspect check the figure is
\* resized as computed and, with aspect=None, has the same height/width
\* ratio after the resize as before it.
C4_ResizeKeepsRatio ==
    Resized =>
        /\ SizeAsComputed
        /\ IsNone(args.aspect) =>
              /\ fig.w[1] # 0
              /\ RDiv(fig.h, fig.w) = RDiv(figBefore.h, figBefore.w)

MarginsDone ==
    pc \in {"fonts", "draw", "save", "savefig", "show", "close", "returned"}

Clamped(x) == IF RLt(x, R0) THEN R0 ELSE IF RLt(R1, x) THEN R1 ELSE x

\* C5: the margin applied is the per-call side_margin when given, otherwise
\* the project default; with neither, subplots_adjust is not called and the
\* layout is as before; a scalar gives left = m, right = 1 - m and a pair
\* (l, r) gives left = l, right = 1 - r (each fraction limited to [0, 1]).
C5_SideMarginChoice ==
    MarginsDone =>
        LET m == IF ~IsNone(args.side_margin) THEN args.side_margin
                                              ELSE DEFAULTS.side_margin
        IN  IF IsNone(m)
            THEN /\ Count(events, "subplots_adjust") = 0
                 /\ fig.left = figBefore.left
                 /\ fig.right = figBefore.right
            ELSE /\ Count(events, "subplots_adjust") = 1
                 /\ fig.left = Clamped(Val(m).x0)
                 /\ fig.right = RSub(R1, Clamped(IF Val(m).seq THEN Val(m).x1
                                                               ELSE Val(m).x0))

C5_Witness ==
    /\ pc = "returned"
    /\ args.side_margin = Some(Pair(Rat(1, 10), Rat(1, 5)))
    /\ DEFAULTS.side_margin = Some(Scalar(Rat(1, 10)))
    /\ fig.left = Rat(1, 10)
    /\ fig.right = Rat(4, 5)

\* rcParams as the per-call overrides make them
ExpectedRc ==
    [k \in RcKeys |->
        IF k = "font.size" /\ ~IsNone(args.font_size)
        THEN Val(args.font_size)
        ELSE IF k = "axes.labelsize" /\ ~IsNone(args.axes_label_size)
        THEN Val(args.axes_label_size)
        ELSE IF k \in {"xtick.labelsize", "ytick.labelsize"}
                /\ ~IsNone(args.tick_size)
        THEN Val(args.tick_size)
        ELSE IF k = "legend.fontsize" /\ ~IsNone(args.legend_size)
        THEN Val(args.legend_size)
        ELSE rcBefore[k]]

NoOverrideGiven ==
    /\ IsNone(args.font_size)
    /\ IsNone(args.axes_label_size)
    /\ IsNone(args.tick_size)
    /\ IsNone(args.legend_size)

\* C6: at every draw and every savefig the overridden keys of rcParams have
\* the per-call values and every other key its value from before the call;
\* once the call is past saving, has returned or has ended with an exception,
\* rcParams are what they were before the call; without overrides rcParams
\* never differ from what they were before the call.
C6_FontOverridesTemporary ==
    pc # "idle" =>
        /\ \A i \in 1..Len(rcSeen) : rcSeen[i] = ExpectedRc
        /\ pc \in {"show", "close", "returned", "raised"} => rcParams = rcBefore
        /\ NoOverrideGiven => rcParams = rcBefore

C6_Witness ==
    /\ pc = "raised"
    /\ err = "LibraryError"
    /\ Len(rcSeen) = 2
    /\ args.font_size = Some(14)
    /\ args.tick_size = Some(7)
    /\ rcSeen[2]["ytick.labelsize"] = 7
    /\ rcBefore["ytick.labelsize"] = 8
    /\ rcParams = rcBefore

\* rcParams agree with _DEFAULTS
RcAgrees ==
    /\ rcParams["text.usetex"] = DEFAULTS.use_tex
    /\ rcParams["font.family"] = DEFAULTS.family
    /\ rcParams["font.serif"] = DEFAULTS.serif
    /\ rcParams["font.size"] = DEFAULTS.base_font_pt
    /\ rcParams["legend.fontsize"] = DEFAULTS.legend_font_pt
    /\ rcParams["xtick.labelsize"] = DEFAULTS.tick_font_pt
    /\ rcParams["ytick.labelsize"] = DEFAULTS.tick_font_pt
    /\ rcParams["axes.formatter.use_mathtext"] = DEFAULTS.use_mathtext_for_ticks
    /\ rcParams["pgf.texsystem"] = DEFAULTS.engine
    /\ rcParams["pgf.preamble"] = DEFAULTS.preamble
    /\ rcParams["pgf.rcfonts"] = FALSE
    /\ IF IsNone(DEFAULTS.axes_label_pt)
       THEN rcParams["axes.labelsize"] = DEFAULTS.base_font_pt
       ELSE rcParams["axes.labelsize"] = Val(DEFAULTS.axes_label_pt)

\* v is the argument x as configure_latex stores it under key k
StoredAs(k, x, v) ==
    IF k \in {"base_font_pt", "tick_font_pt", "legend_font_pt"}
    THEN v * x[2] <= x[1] /\ x[1] < (v + 1) * x[2]
    ELSE IF k = "axes_label_pt"
    THEN ~IsNone(v) /\ Val(v) * x[2] <= x[1] /\ x[1] < (Val(v) + 1) * x[2]
    ELSE IF k = "side_margin" THEN v = Some(x)
    ELSE v = x

\* A configure_latex step leaves what it was not given
ConfigureFrame ==
    /\ \A k \in SettingKeys :
          IF IsNone(cfgArgs'[k]) THEN DEFAULTS'[k] = DEFAULTS[k]
          ELSE StoredAs(k, Val(cfgArgs'[k]), DEFAULTS'[k])
    /\ IF IsNone(cfgArgs'.textwidth_pt) THEN TEXTWIDTH_PT' = TEXTWIDTH_PT
       ELSE TEXTWIDTH_PT' = Val(cfgArgs'.textwidth_pt)
    /\ ~IsNone(DEFAULTS.axes_label_pt) => ~IsNone(DEFAULTS'.axes_label_pt)
    /\ ~IsNone(DEFAULTS.side_margin) => ~IsNone(DEFAULTS'.side_margin)

\* C7: after import and after every configure_latex call rcParams agree with
\* _DEFAULTS (axes.labelsize is axes_label_pt, or base_font_pt when that is
\* None); a configure_latex call sets the settings it is given, leaves every
\* other setting and TEXTWIDTH_PT as they were, and never returns
\* axes_label_pt or side_margin to None.
C7_ConfigAgreesAndFrames == [](RcAgrees) /\ [][ConfigureFrame]_vars

C7_Witness ==
    /\ IsNone(cfgArgs.axes_label_pt)
    /\ cfgArgs.base_font_pt = Some(Rat(25, 2))
    /\ DEFAULTS.axes_label_pt = Some(9)
    /\ DEFAULTS.base_font_pt = 12
    /\ rcParams["axes.labelsize"] = 9
    /\ rcParams["font.size"] = 12
    /\ TEXTWIDTH_PT = Rat(939, 2)

\* The library calls of a call that returns, in order
ExpectedEvents ==
    <<"set_size_inches">>
    \o (IF IsNone(args.side_margin) /\ IsNone(DEFAULTS.side_margin)
        THEN <<>> ELSE <<"subplots_adjust">>)
    \o <<"draw">>
    \o [i \in 1..(2 * Len(args.formats)) |->
            IF i % 2 = 1 THEN "mkdir" ELSE "savefig"]
    \o (IF args.show THEN <<"show">> ELSE <<>>)
    \o <<"close">>

\* C8: a call that returns has resized, applied the margins (if any), drawn,
\* saved every format, shown the figure only if show, and then closed it,
\* in this order and the figure exactly once; at no moment is a file saved
\* before the canvas was drawn, or the canvas drawn before the resize.
C8_StepOrder ==
    pc # "idle" =>
        /\ pc = "returned" => (events = ExpectedEvents /\ fig.closed = 1)
        /\ pc # "returned" => fig.closed = 0
        /\ \A i \in 1..Len(events) :
              /\ events[i] = "savefig" =>
                    \E j \in 1..(i - 1) : events[j] = "draw"
              /\ events[i] = "draw" =>
                    \E j \in 1..(i - 1) : events[j] = "set_size_inches"

C8_Witness ==
    /\ pc = "returned"
    /\ args.show
    /\ ~IsNone(args.side_margin)
    /\ Len(args.formats) = 2
    /\ Len(events) = 9

MapPre ==
    /\ Len(mp.xs) = Len(mp.ys)
    /\ Cardinality(Range(mp.xs)) >= 2
    /\ Cardinality(Range(mp.ys)) >= 2
    /\ mp.left + mp.right < mp.width
    /\ mp.top + mp.bottom < mp.height

\* C9: for equal-length xs, ys with two distinct x and two distinct y values
\* and margins that leave a plot rectangle, map_points returns one pixel pair
\* per sample, in input order, inside the rectangle; the smallest x is at
\* left, the largest at width - right; x_px grows with x, y_px falls as y
\* grows; with y_padding > 0 no sample is on the top or bottom edge.
C9_MapPoints ==
    (mapped.status # "none" /\ MapPre) =>
        LET pts == mapped.pts
            lo == RInt(mp.left)
            hi == RInt(mp.width - mp.right)
            up == RInt(mp.top)
            dn == RInt(mp.height - mp.bottom)
            N == 1..Len(mp.xs)
        IN  /\ mapped.status = "ok"
            /\ Len(pts) = Len(mp.xs)
            /\ \A i \in N :
                  /\ RLe(lo, pts[i][1]) /\ RLe(pts[i][1], hi)
                  /\ RLe(up, pts[i][2]) /\ RLe(pts[i][2], dn)
                  /\ (\A j \in N : RLe(mp.xs[i], mp.xs[j])) => pts[i][1] = lo
                  /\ (\A j \in N : RLe(mp.xs[j], mp.xs[i])) => pts[i][1] = hi
                  /\ RLt(R0, mp.y_padding) =>
                        (RLt(up, pts[i][2]) /\ RLt(pts[i][2], dn))
            /\ \A i, j \in N :
                  /\ RLt(mp.xs[i], mp.xs[j]) => RLt(pts[i][1], pts[j][1])
                  /\ RLt(mp.ys[i], mp.ys[j]) => RLt(pts[j][2], pts[i][2])
                  /\ mp.xs[i] = mp.xs[j] => pts[i][1] = pts[j][1]
                  /\ mp.ys[i] = mp.ys[j] => pts[i][2] = pts[j][2]

C9_Witness ==
    /\ mapped.status = "ok"
    /\ MapPre
    /\ mp.width = 900
    /\ mp.xs = <<Rat(5, 2), RInt(-1), R0>>
    /\ mp.ys = <<R0, Rat(5, 2), RInt(-1)>>
    /\ mp.y_padding = Rat(1, 20)
    /\ mapped.pts[1][1] = RInt(856)
    /\ mapped.pts[2][1] = RInt(84)

====
